---- MODULE Spec2Model ----
(***************************************************************************)
(* Model of the rain-window logic of meteoswiss-cli (cmd/meteocli/rain.go, *)
(* two-array version): graphRainInWindow and checkRain.                    *)
(*                                                                         *)
(* Time is counted in minutes since the Unix epoch (the code holds Unix    *)
(* milliseconds; every instant of the model is a whole minute, so the      *)
(* comparisons are the same).  Precipitation is counted in tenths of a     *)
(* millimetre, so that "%.1f" prints it exactly.                           *)
(***************************************************************************)
EXTENDS Integers, Sequences, FiniteSets, TLC

VARIABLES
    g,          \* the *api.GraphData handed to graphRainInWindow
    now,        \* the instant handed to graphRainInWindow / checkRain
    window,     \* the duration handed to graphRainInWindow
    ret,        \* what the last call of graphRainInWindow returned
    prevRet,    \* what the call before that returned
    calls,      \* how many times graphRainInWindow has been called
    plz,        \* checkRain argument
    within,     \* checkRain argument (minutes)
    detail,     \* the *api.PLZDetail handed to checkRain
    result,     \* the rainResult checkRain returned
    pc,         \* "query": calls of graphRainInWindow; "rain": before checkRain;
                \* "start", "wait", "fetched": a command before, during and after its
                \* request; "plz", "plz6": before requirePLZ / plz6; "done"
    cmd,        \* the command run: "rain", "forecast", "warnings" ("" when none)
    zipSet,     \* whether --zip was given
    days,       \* --days
    warnLevel,  \* --min-level
    asJSON,     \* --json
    requests,   \* the URLs handed to http.Client.Do so far
    resp,       \* the backend's answer to the request (noResp before it)
    fetched,    \* what Client.PLZDetail returned: [result, err]
    err,        \* the error the command (or requirePLZ) returned, <<>> for nil
    output,     \* what the command printed or serialized
    checks,     \* how many times the command ran checkRain
    other,      \* a second postal code, to compare plz6 on
    code6,      \* what plz6 returned, and the URL built from it
    label,      \* truncate argument s, as its bytes
    width,      \* truncate argument n
    cut         \* what truncate returned, or that it panicked

txtVars == <<label, width, cut>>

cmdVars == <<cmd, zipSet, days, warnLevel, asJSON, requests, resp, fetched, err, output, checks, other, code6, txtVars>>

vars == <<g, now, window, ret, prevRet, calls, plz, within, detail, result, pc, cmdVars>>

(***************************************************************************)
(* Bounds of the model.                                                    *)
(***************************************************************************)
MaxMM == 1          \* largest precipitation value (tenths of a mm)
MaxHi == 2          \* longest high-resolution series
MaxLo == 1          \* longest low-resolution series
MaxLoStartK == 4    \* StartLowResolution ranges over 0 and 15, 20, .., 15 + 5*MaxLoStartK
MaxNowK == 20       \* now ranges over 0, 5, .., 5*MaxNowK
MaxWindowK == 3     \* window ranges over 0, 5, .., 5*MaxWindowK
MaxForecast == 2    \* longest daily forecast list
MaxWarnings == 2    \* longest warnings list
MaxLabel == 4       \* longest string handed to truncate, in bytes
MaxWidth == 4       \* largest n handed to truncate
MaxSlots == 3       \* longest single-array precipitation series

(***************************************************************************)
(* Program constants.                                                      *)
(***************************************************************************)
hiInterval == 10    \* minutes
loInterval == 60    \* minutes

SeqsUpTo(S, n) == UNION {[1..k -> S] : k \in 0..n}

Grid(k) == {5 * i : i \in 0..k}

\* api.GraphData.  A Start / StartLowResolution of 0 is the zero value the
\* JSON decoder leaves when the field is missing.
GraphData(starts, loStarts, his, los) ==
    [Start : starts,
     StartLowResolution : loStarts,
     Precipitation10m : his,
     Precipitation1h : los]

\* Start is missing (0) or minute 10; the high-resolution series then covers
\* [10, 10 + 10*len).  StartLowResolution is missing (0) or lies before, at or
\* after the end of that coverage.
Starts == {0, 10}
LoStarts == {0} \cup {15 + 5 * k : k \in 0..MaxLoStartK}

\* The named results (maxMM, ok) at function entry.  counted is a ghost: the
\* slots that passed the overlap test, as <<series, index>>.
zeroRet == [maxMM |-> 0, ok |-> FALSE, counted |-> {}]

\* scanSlots with the window taken as half-open at its end: the loop stops at
\* the first slot that starts at or after end.
RECURSIVE scanSlotsHalfOpen(_, _, _, _, _, _, _, _)
scanSlotsHalfOpen(series, start, interval, p, i, t, end, acc) ==
    IF i > Len(p) THEN acc
    ELSE LET slotStart == start + (i - 1) * interval
             slotEnd == slotStart + interval
         IN  IF slotStart >= end THEN acc
             ELSE IF ~(slotEnd > t)
                  THEN scanSlotsHalfOpen(series, start, interval, p, i + 1, t, end, acc)
                  ELSE scanSlotsHalfOpen(series, start, interval, p, i + 1, t, end,
                           [maxMM |-> IF p[i] > acc.maxMM THEN p[i] ELSE acc.maxMM,
                            ok |-> TRUE,
                            counted |-> acc.counted \cup {<<series, i>>}])

\* scanSlots skipping only the slots that end strictly before now
\* (slotEnd.Before(now) in place of !slotEnd.After(now)).
RECURSIVE scanSlotsEndInclusive(_, _, _, _, _, _, _, _)
scanSlotsEndInclusive(series, start, interval, p, i, t, end, acc) ==
    IF i > Len(p) THEN acc
    ELSE LET slotStart == start + (i - 1) * interval
             slotEnd == slotStart + interval
         IN  IF slotStart > end THEN acc
             ELSE IF slotEnd < t
                  THEN scanSlotsEndInclusive(series, start, interval, p, i + 1, t, end, acc)
                  ELSE scanSlotsEndInclusive(series, start, interval, p, i + 1, t, end,
                           [maxMM |-> IF p[i] > acc.maxMM THEN p[i] ELSE acc.maxMM,
                            ok |-> TRUE,
                            counted |-> acc.counted \cup {<<series, i>>}])

\* scanSlots keeping the value of the last overlapping slot rather than the
\* largest.
RECURSIVE scanSlotsLastWins(_, _, _, _, _, _, _, _)
scanSlotsLastWins(series, start, interval, p, i, t, end, acc) ==
    IF i > Len(p) THEN acc
    ELSE LET slotStart == start + (i - 1) * interval
             slotEnd == slotStart + interval
         IN  IF slotStart > end THEN acc
             ELSE IF ~(slotEnd > t)
                  THEN scanSlotsLastWins(series, start, interval, p, i + 1, t, end, acc)
                  ELSE scanSlotsLastWins(series, start, interval, p, i + 1, t, end,
                           [maxMM |-> p[i],
                            ok |-> TRUE,
                            counted |-> acc.counted \cup {<<series, i>>}])

\* One "for i, p := range series" loop of graphRainInWindow, from index i
\* (1-based) on, acc holding maxMM and ok so far.
RECURSIVE scanSlots(_, _, _, _, _, _, _, _)
scanSlots(series, start, interval, p, i, t, end, acc) ==
    IF i > Len(p) THEN acc
    ELSE LET slotStart == start + (i - 1) * interval
             slotEnd == slotStart + interval
         IN  IF slotStart > end THEN acc                          \* break
             ELSE IF ~(slotEnd > t)
                  THEN scanSlots(series, start, interval, p, i + 1, t, end, acc)  \* continue
                  ELSE scanSlots(series, start, interval, p, i + 1, t, end,
                           [maxMM |-> IF p[i] > acc.maxMM THEN p[i] ELSE acc.maxMM,
                            ok |-> TRUE,
                            counted |-> acc.counted \cup {<<series, i>>}])

\* graphRainInWindow without the "StartLowResolution != 0" test: the
\* low-resolution loop runs whatever the start.
graphRainInWindowNoLoGuard(gr, t, w) ==
    IF gr.Start = 0 THEN zeroRet
    ELSE LET end == t + w
             hi == scanSlots("hi", gr.Start, hiInterval, gr.Precipitation10m, 1, t, end, zeroRet)
         IN  scanSlots("lo", gr.StartLowResolution, loInterval, gr.Precipitation1h, 1, t, end, hi)

graphRainInWindow(gr, t, w) ==
    IF gr.Start = 0 THEN zeroRet
    ELSE LET end == t + w
             hi == scanSlots("hi", gr.Start, hiInterval, gr.Precipitation10m, 1, t, end, zeroRet)
         IN  IF gr.StartLowResolution # 0
             THEN scanSlots("lo", gr.StartLowResolution, loInterval, gr.Precipitation1h, 1, t, end, hi)
             ELSE hi

(***************************************************************************)
(* Calls of graphRainInWindow on inputs drawn at Init.                     *)
(***************************************************************************)
noDetail == [Graph |-> <<>>, Forecast |-> <<>>, Warnings |-> <<>>]
noResp == [transport |-> "none", status |-> 0, body |-> "", detail |-> noDetail]
noFetch == [result |-> <<>>, err |-> <<>>]

\* truncate not called.
noCut == [panic |-> FALSE, value |-> <<>>]
NoText ==
    /\ label = <<>>
    /\ width = 0
    /\ cut = noCut

\* The command variables when no command runs.
NoCommand ==
    /\ cmd = ""
    /\ zipSet = FALSE
    /\ days = 0
    /\ warnLevel = 0
    /\ asJSON = FALSE
    /\ requests = <<>>
    /\ resp = noResp
    /\ fetched = noFetch
    /\ err = <<>>
    /\ output = <<>>
    /\ checks = 0
    /\ other = 0
    /\ code6 = [n |-> 0, url |-> <<>>]
    /\ NoText
noResult == [PLZ |-> 0, WithinMinutes |-> 0, RainExpected |-> FALSE, MaxRainMM |-> 0, Message |-> <<>>]

InitQuery ==
    /\ g \in GraphData(Starts, LoStarts, SeqsUpTo(0..MaxMM, MaxHi), SeqsUpTo(0..MaxMM, MaxLo))
    /\ now \in Grid(MaxNowK)
    /\ window \in Grid(MaxWindowK)
    /\ ret = zeroRet
    /\ prevRet = zeroRet
    /\ calls = 0
    /\ plz = 0
    /\ within = 0
    /\ detail = noDetail
    /\ result = noResult
    /\ pc = "query"
    /\ NoCommand

\* A call that consumes the high-resolution series it scans.
CallQueryConsuming ==
    /\ pc = "query"
    /\ calls < 2
    /\ ret' = graphRainInWindow(g, now, window)
    /\ prevRet' = ret
    /\ calls' = calls + 1
    /\ g' = [g EXCEPT !.Precipitation10m = <<>>]
    /\ UNCHANGED <<now, window, plz, within, detail, result, pc, cmdVars>>

\* maxMM, ok := graphRainInWindow(g, now, window).  The function only reads g.
CallQuery ==
    /\ pc = "query"
    /\ calls < 2
    /\ ret' = graphRainInWindow(g, now, window)
    /\ prevRet' = ret
    /\ calls' = calls + 1
    /\ UNCHANGED <<g, now, window, plz, within, detail, result, pc, cmdVars>>

NextQuery == CallQuery

SpecQuery == InitQuery /\ [][NextQuery]_vars

(***************************************************************************)
(* The data model the claims speak of.  A series is present when its start *)
(* is set (non-zero); slot i (1-based) of a present series covers          *)
(* [start + (i-1)*width, start + i*width).                                 *)
(***************************************************************************)
Slots(gr) ==
    {<<"hi", i>> : i \in (IF gr.Start # 0 THEN 1..Len(gr.Precipitation10m) ELSE {})}
    \cup {<<"lo", i>> : i \in (IF gr.StartLowResolution # 0 THEN 1..Len(gr.Precipitation1h) ELSE {})}

SlotStart(gr, s) ==
    IF s[1] = "hi" THEN gr.Start + (s[2] - 1) * hiInterval
    ELSE gr.StartLowResolution + (s[2] - 1) * loInterval

SlotEnd(gr, s) == SlotStart(gr, s) + (IF s[1] = "hi" THEN hiInterval ELSE loInterval)

SlotMM(gr, s) == IF s[1] = "hi" THEN gr.Precipitation10m[s[2]] ELSE gr.Precipitation1h[s[2]]

\* [SlotStart, SlotEnd) and [t, t + w] have an instant in common.
Intersects(gr, s, t, w) == \E x \in t..(t + w) : SlotStart(gr, s) <= x /\ x < SlotEnd(gr, s)

InWindow(gr, t, w) == {s \in Slots(gr) : Intersects(gr, s, t, w)}

SetMax(S) == IF S = {} THEN 0 ELSE CHOOSE m \in S : \A x \in S : x <= m

TrueMax(gr, t, w) == SetMax({SlotMM(gr, s) : s \in InWindow(gr, t, w)})

\* gr with every slot that does not intersect the window made dry.
DryOutside(gr, t, w) ==
    [gr EXCEPT
        !.Precipitation10m = [i \in 1..Len(gr.Precipitation10m) |->
            IF <<"hi", i>> \in InWindow(gr, t, w) THEN gr.Precipitation10m[i] ELSE 0],
        !.Precipitation1h = [i \in 1..Len(gr.Precipitation1h) |->
            IF <<"lo", i>> \in InWindow(gr, t, w) THEN gr.Precipitation1h[i] ELSE 0]]

HiNone == g.Start = 0 \/ Len(g.Precipitation10m) = 0
LoNone == g.StartLowResolution = 0 \/ Len(g.Precipitation1h) = 0

\* C1: the returned maxMM is the maximum over all slots of both series that
\* intersect [now, now+window], 0 when none does.
C1_MaxOverBothSeries ==
    calls >= 1 => ret.maxMM = TrueMax(g, now, window)

\* C2: found is true exactly when some slot of either series overlaps the
\* window; an all-dry overlap gives (0, true); rain outside the window does
\* not change the result.
C2_FoundIffOverlap ==
    calls >= 1 =>
        /\ ret.ok <=> InWindow(g, now, window) # {}
        /\ (InWindow(g, now, window) # {} /\ \A s \in InWindow(g, now, window) : SlotMM(g, s) = 0)
               => (ret.maxMM = 0 /\ ret.ok)
        /\ LET dry == graphRainInWindow(DryOutside(g, now, window), now, window)
           IN  ret.maxMM = dry.maxMM /\ ret.ok = dry.ok

\* C3: a slot of either series is counted exactly when slotStart <= now+window
\* and slotEnd > now.
C3_CountedExactly ==
    calls >= 1 =>
        ret.counted = {s \in Slots(g) : SlotStart(g, s) <= now + window /\ SlotEnd(g, s) > now}

\* C4 as claimed: a slot that begins exactly at now+window is not counted.
C4_SlotAtWindowEndNotCounted ==
    calls >= 1 => \A s \in ret.counted : SlotStart(g, s) # now + window

\* C4 amended: a high-resolution slot that begins exactly at now+window is
\* counted: it sets found and its value bounds maxMM from below.
C4_SlotAtWindowEndCounted ==
    calls >= 1 =>
        \A s \in Slots(g) :
            (s[1] = "hi" /\ SlotStart(g, s) = now + window)
                => (s \in ret.counted /\ ret.ok /\ ret.maxMM >= SlotMM(g, s))

C4_Witness ==
    /\ calls >= 1
    /\ \E s \in Slots(g) :
          /\ s[1] = "hi"
          /\ SlotStart(g, s) = now + window
          /\ SlotMM(g, s) > 0
          /\ ret.counted = {s}
          /\ ret.maxMM = SlotMM(g, s)

\* C5: with the high-resolution series absent or empty, whatever Start is, an
\* overlapping low-resolution slot gives found=true and the maximum of the
\* overlapping low-resolution slots.
C5_LowResScannedAlone ==
    (calls >= 1 /\ HiNone /\ \E s \in InWindow(g, now, window) : s[1] = "lo")
        => (ret.ok /\ ret.maxMM = SetMax({SlotMM(g, s) : s \in {x \in InWindow(g, now, window) : x[1] = "lo"}}))

\* C6: with both series empty or absent the call returns (0, false).
C6_BothEmpty ==
    (calls >= 1 /\ HiNone /\ LoNone) => (ret.maxMM = 0 /\ ~ret.ok)

C6_Witness ==
    /\ calls >= 1
    /\ g.Start # 0
    /\ Len(g.Precipitation10m) = 0
    /\ LoNone
    /\ Len(g.Precipitation1h) > 0
    /\ now < loInterval
    /\ ~ret.ok

\* C7: a window entirely after, or entirely before, the data gives
\* found=false and maxMM=0.
C7_OutsideData ==
    (calls >= 1 /\ (\/ \A s \in Slots(g) : SlotEnd(g, s) <= now
                    \/ \A s \in Slots(g) : now + window < SlotStart(g, s)))
        => (~ret.ok /\ ret.maxMM = 0)

C7_Witness ==
    /\ calls >= 1
    /\ Slots(g) # {}
    /\ \A s \in Slots(g) : SlotEnd(g, s) <= now
    /\ \E s \in Slots(g) : SlotEnd(g, s) = now /\ SlotMM(g, s) > 0
    /\ ~ret.ok

Digit(d) ==
    CASE d = 0 -> "0" [] d = 1 -> "1" [] d = 2 -> "2" [] d = 3 -> "3" [] d = 4 -> "4"
      [] d = 5 -> "5" [] d = 6 -> "6" [] d = 7 -> "7" [] d = 8 -> "8" [] d = 9 -> "9"

\* "%d"
RECURSIVE FmtInt(_)
FmtInt(n) ==
    IF n < 0 THEN <<"-">> \o FmtInt(0 - n)
    ELSE IF n < 10 THEN <<Digit(n)>>
    ELSE FmtInt(n \div 10) \o <<Digit(n % 10)>>

\* "%.1f" of a value held in tenths of a millimetre
FmtMM(v) ==
    IF v < 0 THEN <<"-">> \o FmtInt((0 - v) \div 10) \o <<".", Digit((0 - v) % 10)>>
    ELSE FmtInt(v \div 10) \o <<".", Digit(v % 10)>>

Contains(msg, piece) == \E i \in 1..Len(msg) : msg[i] = piece

\* checkRain falling back to the daily forecast when the window is dry
\* ("if ok && maxMM > 0").
checkRainFallBackWhenDry(p, w, d, t) ==
    LET res == [PLZ |-> p, WithinMinutes |-> w, RainExpected |-> FALSE, MaxRainMM |-> 0, Message |-> <<>>]
        q == graphRainInWindow(d.Graph[1], t, w)
    IN  IF Len(d.Graph) > 0 /\ Len(d.Graph[1].Precipitation10m) > 0 /\ q.ok /\ q.maxMM > 0
        THEN [res EXCEPT !.MaxRainMM = q.maxMM,
                         !.RainExpected = TRUE,
                         !.Message = <<"Rain expected: up to ">> \o FmtMM(q.maxMM)
                                     \o <<" mm in the next ">> \o FmtInt(w) \o <<" min">>]
        ELSE IF Len(d.Forecast) > 0
        THEN LET today == d.Forecast[1]
             IN  [res EXCEPT !.MaxRainMM = today.Precipitation,
                             !.RainExpected = today.Precipitation > 0,
                             !.Message = IF today.Precipitation > 0
                                 THEN <<"Rain possible today: ">> \o FmtMM(today.Precipitation)
                                      \o <<" mm forecast (", "hourly data unavailable", ")">>
                                 ELSE <<"No rain expected today (", "hourly data unavailable", ")">>]
        ELSE [res EXCEPT !.Message = <<"Rain data unavailable">>]

\* checkRain reading the last forecast entry in place of the first.
checkRainLastDay(p, w, d, t) ==
    LET res == [PLZ |-> p, WithinMinutes |-> w, RainExpected |-> FALSE, MaxRainMM |-> 0, Message |-> <<>>]
        q == graphRainInWindow(d.Graph[1], t, w)
    IN  IF Len(d.Graph) > 0 /\ Len(d.Graph[1].Precipitation10m) > 0 /\ q.ok
        THEN [res EXCEPT !.MaxRainMM = q.maxMM,
                         !.RainExpected = q.maxMM > 0,
                         !.Message = IF q.maxMM > 0
                             THEN <<"Rain expected: up to ">> \o FmtMM(q.maxMM)
                                  \o <<" mm in the next ">> \o FmtInt(w) \o <<" min">>
                             ELSE <<"No rain expected in the next ">> \o FmtInt(w) \o <<" min">>]
        ELSE IF Len(d.Forecast) > 0
        THEN LET today == d.Forecast[Len(d.Forecast)]
             IN  [res EXCEPT !.MaxRainMM = today.Precipitation,
                             !.RainExpected = today.Precipitation > 0,
                             !.Message = IF today.Precipitation > 0
                                 THEN <<"Rain possible today: ">> \o FmtMM(today.Precipitation)
                                      \o <<" mm forecast (", "hourly data unavailable", ")">>
                                 ELSE <<"No rain expected today (", "hourly data unavailable", ")">>]
        ELSE [res EXCEPT !.Message = <<"Rain data unavailable">>]

\* checkRain with the initial result res0 and the message unavailable of its
\* last branch left open: the mutants below fill them in.
checkRainFrom(res0, unavailable, w, d, t) ==
    LET q == graphRainInWindow(d.Graph[1], t, w)
    IN  IF Len(d.Graph) > 0 /\ Len(d.Graph[1].Precipitation10m) > 0 /\ q.ok
        THEN [res0 EXCEPT !.MaxRainMM = q.maxMM,
                          !.RainExpected = q.maxMM > 0,
                          !.Message = IF q.maxMM > 0
                              THEN <<"Rain expected: up to ">> \o FmtMM(q.maxMM)
                                   \o <<" mm in the next ">> \o FmtInt(w) \o <<" min">>
                              ELSE <<"No rain expected in the next ">> \o FmtInt(w) \o <<" min">>]
        ELSE IF Len(d.Forecast) > 0
        THEN LET today == d.Forecast[1]
             IN  [res0 EXCEPT !.MaxRainMM = today.Precipitation,
                              !.RainExpected = today.Precipitation > 0,
                              !.Message = IF today.Precipitation > 0
                                  THEN <<"Rain possible today: ">> \o FmtMM(today.Precipitation)
                                       \o <<" mm forecast (", "hourly data unavailable", ")">>
                                  ELSE <<"No rain expected today (", "hourly data unavailable", ")">>]
        ELSE [res0 EXCEPT !.Message = unavailable]

\* checkRain reporting missing data with the dry-day message of the fallback.
checkRainUnavailableAsDry(p, w, d, t) ==
    checkRainFrom([PLZ |-> p, WithinMinutes |-> w, RainExpected |-> FALSE, MaxRainMM |-> 0, Message |-> <<>>],
                  <<"No rain expected today (", "hourly data unavailable", ")">>, w, d, t)

\* checkRain returning without a message when no data exists.
checkRainNoMessage(p, w, d, t) ==
    checkRainFrom([PLZ |-> p, WithinMinutes |-> w, RainExpected |-> FALSE, MaxRainMM |-> 0, Message |-> <<>>],
                  <<>>, w, d, t)

\* checkRain starting from an empty rainResult{}: PLZ and WithinMinutes unset.
checkRainNoMeta(p, w, d, t) ==
    checkRainFrom([PLZ |-> 0, WithinMinutes |-> 0, RainExpected |-> FALSE, MaxRainMM |-> 0, Message |-> <<>>],
                  <<"Rain data unavailable">>, w, d, t)

\* checkRain running the windowed query on any graph, also one without a
\* high-resolution series.
checkRainNoHiGuard(p, w, d, t) ==
    LET res == [PLZ |-> p, WithinMinutes |-> w, RainExpected |-> FALSE, MaxRainMM |-> 0, Message |-> <<>>]
        q == graphRainInWindow(d.Graph[1], t, w)
    IN  IF Len(d.Graph) > 0 /\ q.ok
        THEN [res EXCEPT !.MaxRainMM = q.maxMM,
                         !.RainExpected = q.maxMM > 0,
                         !.Message = IF q.maxMM > 0
                             THEN <<"Rain expected: up to ">> \o FmtMM(q.maxMM)
                                  \o <<" mm in the next ">> \o FmtInt(w) \o <<" min">>
                             ELSE <<"No rain expected in the next ">> \o FmtInt(w) \o <<" min">>]
        ELSE checkRainFrom(res, <<"Rain data unavailable">>, w, [d EXCEPT !.Graph = <<>>], t)

\* checkRain calling a day wet whenever its total is not zero.
checkRainWetWhenNonZero(p, w, d, t) ==
    LET res == [PLZ |-> p, WithinMinutes |-> w, RainExpected |-> FALSE, MaxRainMM |-> 0, Message |-> <<>>]
        q == graphRainInWindow(d.Graph[1], t, w)
    IN  IF Len(d.Graph) > 0 /\ Len(d.Graph[1].Precipitation10m) > 0 /\ q.ok
        THEN checkRainFrom(res, <<"Rain data unavailable">>, w, d, t)
        ELSE IF Len(d.Forecast) > 0
        THEN LET today == d.Forecast[1]
             IN  [res EXCEPT !.MaxRainMM = today.Precipitation,
                             !.RainExpected = today.Precipitation # 0,
                             !.Message = IF today.Precipitation # 0
                                 THEN <<"Rain possible today: ">> \o FmtMM(today.Precipitation)
                                      \o <<" mm forecast (", "hourly data unavailable", ")">>
                                 ELSE <<"No rain expected today (", "hourly data unavailable", ")">>]
        ELSE [res EXCEPT !.Message = <<"Rain data unavailable">>]

\* d.Graph is a pointer: <<>> is nil, <<gr>> points to gr.  The window is
\* time.Duration(within) * time.Minute, w minutes.
checkRain(p, w, d, t) ==
    LET res == [PLZ |-> p, WithinMinutes |-> w, RainExpected |-> FALSE, MaxRainMM |-> 0, Message |-> <<>>]
        q == graphRainInWindow(d.Graph[1], t, w)
    IN  IF Len(d.Graph) > 0 /\ Len(d.Graph[1].Precipitation10m) > 0 /\ q.ok
        THEN [res EXCEPT !.MaxRainMM = q.maxMM,
                         !.RainExpected = q.maxMM > 0,
                         !.Message = IF q.maxMM > 0
                             THEN <<"Rain expected: up to ">> \o FmtMM(q.maxMM)
                                  \o <<" mm in the next ">> \o FmtInt(w) \o <<" min">>
                             ELSE <<"No rain expected in the next ">> \o FmtInt(w) \o <<" min">>]
        ELSE IF Len(d.Forecast) > 0
        THEN LET today == d.Forecast[1]
             IN  [res EXCEPT !.MaxRainMM = today.Precipitation,
                             !.RainExpected = today.Precipitation > 0,
                             !.Message = IF today.Precipitation > 0
                                 THEN <<"Rain possible today: ">> \o FmtMM(today.Precipitation)
                                      \o <<" mm forecast (", "hourly data unavailable", ")">>
                                 ELSE <<"No rain expected today (", "hourly data unavailable", ")">>]
        ELSE [res EXCEPT !.Message = <<"Rain data unavailable">>]

\* api.DayForecast, reduced to the field checkRain reads.
DayForecast == [Precipitation : (0 - 1)..MaxMM]

\* The graphs handed to checkRain: high-resolution data from minute 10 (or no
\* Start), one wet hourly slot from minute 30 or none.
RainGraphs == GraphData(Starts, {0, 30}, SeqsUpTo(0..MaxMM, MaxHi), {<<>>, <<1>>})

PLZDetail ==
    [Graph : {<<>>} \cup {<<gr>> : gr \in RainGraphs},
     Forecast : SeqsUpTo(DayForecast, MaxForecast),
     Warnings : {<<>>}]

InitRain ==
    /\ detail \in PLZDetail
    /\ plz \in {3000, 8000}
    /\ within \in {1, 30}
    /\ now \in {5, 20, 95}
    /\ g = [Start |-> 0, StartLowResolution |-> 0, Precipitation10m |-> <<>>, Precipitation1h |-> <<>>]
    /\ window = 0
    /\ ret = zeroRet
    /\ prevRet = zeroRet
    /\ calls = 0
    /\ result = noResult
    /\ pc = "rain"
    /\ NoCommand

\* result := checkRain(plz, within, detail, now)
CallCheckRain ==
    /\ pc = "rain"
    /\ result' = checkRain(plz, within, detail, now)
    /\ pc' = "done"
    /\ UNCHANGED <<g, now, window, ret, prevRet, calls, plz, within, detail, cmdVars>>

NextRain == CallCheckRain

SpecRain == InitRain /\ [][NextRain]_vars

\* The branch test of checkRain and the query it runs.
GraphUsable == Len(detail.Graph) > 0 /\ Len(detail.Graph[1].Precipitation10m) > 0
Query == graphRainInWindow(detail.Graph[1], now, within)

\* C9: with a usable graph and found=true the result is (maxMM, maxMM > 0) and
\* the daily forecast plays no part, also when maxMM = 0.
C9_GraphAnswerIsFinal ==
    (pc = "done" /\ GraphUsable /\ Query.ok) =>
        /\ result.MaxRainMM = Query.maxMM
        /\ result.RainExpected = (Query.maxMM > 0)
        /\ result = checkRain(plz, within, [detail EXCEPT !.Forecast = <<>>], now)

C9_Witness ==
    /\ pc = "done"
    /\ GraphUsable
    /\ Query.ok
    /\ Query.maxMM = 0
    /\ Len(detail.Forecast) > 0
    /\ detail.Forecast[1].Precipitation > 0
    /\ ~result.RainExpected
    /\ result.MaxRainMM = 0

\* C10: without a usable graph answer and with a non-empty forecast, the
\* result is the first entry's precipitation, flagged "hourly data
\* unavailable"; later entries play no part.
C10_FallbackToFirstDay ==
    (pc = "done" /\ ~(GraphUsable /\ Query.ok) /\ Len(detail.Forecast) > 0) =>
        /\ result.MaxRainMM = detail.Forecast[1].Precipitation
        /\ result.RainExpected = (detail.Forecast[1].Precipitation > 0)
        /\ Contains(result.Message, "hourly data unavailable")
        /\ result = checkRain(plz, within, [detail EXCEPT !.Forecast = <<detail.Forecast[1]>>], now)

C10_Witness ==
    /\ pc = "done"
    /\ GraphUsable
    /\ ~Query.ok
    /\ Len(detail.Forecast) = 2
    /\ detail.Forecast[1].Precipitation = 0
    /\ detail.Forecast[2].Precipitation > 0
    /\ ~result.RainExpected
    /\ Contains(result.Message, "hourly data unavailable")

\* The three branches of checkRain, told apart by how the message begins.
GraphMessage(m) ==
    Len(m) > 0 /\ m[1] \in {"Rain expected: up to ", "No rain expected in the next "}
FallbackMessage(m) ==
    Len(m) > 0 /\ m[1] \in {"Rain possible today: ", "No rain expected today ("}
UnavailableMessage(m) == m = <<"Rain data unavailable">>

\* C11: with no usable graph answer and no forecast entry the result is
\* (false, 0) with the message "Rain data unavailable"; the other two branches
\* never produce that message.
C11_Unavailable ==
    pc = "done" =>
        IF ~(GraphUsable /\ Query.ok) /\ Len(detail.Forecast) = 0
        THEN ~result.RainExpected /\ result.MaxRainMM = 0
             /\ result.Message = <<"Rain data unavailable">>
        ELSE result.Message # <<"Rain data unavailable">>
             /\ ~Contains(result.Message, "Rain data unavailable")

C11_Witness ==
    /\ pc = "done"
    /\ GraphUsable
    /\ ~Query.ok
    /\ Len(detail.Forecast) = 0
    /\ result.Message = <<"Rain data unavailable">>

\* C12: checkRain always returns, and its message is non-empty and comes from
\* exactly one of the three branches.
C12_NeverFails ==
    /\ pc = "rain" => ENABLED CallCheckRain
    /\ pc = "done" =>
          /\ Len(result.Message) > 0
          /\ Cardinality({b \in {"graph", "fallback", "unavailable"} :
                 \/ b = "graph" /\ GraphMessage(result.Message)
                 \/ b = "fallback" /\ FallbackMessage(result.Message)
                 \/ b = "unavailable" /\ UnavailableMessage(result.Message)}) = 1
          /\ GraphMessage(result.Message) <=> (GraphUsable /\ Query.ok)
          /\ UnavailableMessage(result.Message)
                 <=> (~(GraphUsable /\ Query.ok) /\ Len(detail.Forecast) = 0)

C12_Witness ==
    /\ pc = "done"
    /\ Len(detail.Graph) = 0
    /\ Len(detail.Forecast) = 0
    /\ UnavailableMessage(result.Message)

\* C13: in every branch the result carries the plz and within arguments.
C13_MetadataPassedThrough ==
    pc = "done" => (result.PLZ = plz /\ result.WithinMinutes = within)

C13_Witness ==
    /\ pc = "done"
    /\ GraphUsable
    /\ Query.ok
    /\ result.PLZ = 3000
    /\ result.WithinMinutes = 30

(***************************************************************************)
(* Postal codes: requirePLZ, plz6 and the URL Client.PLZDetail builds.     *)
(* An error is the sequence of the pieces of its text, <<>> for nil.       *)
(***************************************************************************)
MinPLZ == 1000
MaxPLZ == 9999

baseURL == "https://app-prod-ws.meteoswiss-app.ch/v1"

\* msg holds the pieces of sub in order, next to each other.
ContainsSeq(msg, sub) ==
    \E i \in 1..(Len(msg) - Len(sub) + 1) : SubSeq(msg, i, i + Len(sub) - 1) = sub

\* requirePLZ refusing the lowest and the highest code.
requirePLZExclusive(p) ==
    IF p <= MinPLZ \/ p >= MaxPLZ
    THEN <<"invalid Swiss postal code ">> \o FmtInt(p) \o <<": must be between 1000 and 9999">>
    ELSE <<>>

requirePLZ(p) ==
    IF p < MinPLZ \/ p > MaxPLZ
    THEN <<"invalid Swiss postal code ">> \o FmtInt(p) \o <<": must be between 1000 and 9999">>
    ELSE <<>>

\* plz6 adding one digit only.
plz6TimesTen(p) == p * 10

plz6(p) == p * 100

\* url := fmt.Sprintf("%s/plzDetail?plz=%d", c.baseURL, plz6(plz))
plzDetailURL(base, p) == <<base, "/plzDetail?plz=">> \o FmtInt(plz6(p))

\* The value of the plz query parameter of such a URL.
QueryPLZ(url) == SubSeq(url, 3, Len(url))

InitPLZ ==
    /\ plz \in (0 - 1)..(MaxPLZ + 2) \cup {12345, 99999}
    /\ other \in {MinPLZ, 3012, 8000, MaxPLZ}
    /\ pc = "plz"
    /\ cmd = ""
    /\ zipSet = FALSE
    /\ days = 0
    /\ warnLevel = 0
    /\ asJSON = FALSE
    /\ requests = <<>>
    /\ resp = noResp
    /\ fetched = noFetch
    /\ err = <<>>
    /\ output = <<>>
    /\ checks = 0
    /\ code6 = [n |-> 0, url |-> <<>>]
    /\ NoText
    /\ g = [Start |-> 0, StartLowResolution |-> 0, Precipitation10m |-> <<>>, Precipitation1h |-> <<>>]
    /\ now = 0
    /\ window = 0
    /\ ret = zeroRet
    /\ prevRet = zeroRet
    /\ calls = 0
    /\ within = 0
    /\ detail = noDetail
    /\ result = noResult

\* err := requirePLZ(plz)
CallRequirePLZ ==
    /\ pc = "plz"
    /\ err' = requirePLZ(plz)
    /\ pc' = "plz6"
    /\ UNCHANGED <<g, now, window, ret, prevRet, calls, plz, within, detail, result>>
    /\ UNCHANGED <<cmd, zipSet, days, warnLevel, asJSON, requests, resp, fetched, output, checks, other, code6, txtVars>>

\* The first two statements of Client.PLZDetail(plz).
CallPlz6 ==
    /\ pc = "plz6"
    /\ code6' = [n |-> plz6(plz), url |-> plzDetailURL(baseURL, plz)]
    /\ pc' = "done"
    /\ UNCHANGED <<g, now, window, ret, prevRet, calls, plz, within, detail, result>>
    /\ UNCHANGED <<cmd, zipSet, days, warnLevel, asJSON, requests, resp, fetched, err, output, checks, other, txtVars>>

NextPLZ == CallRequirePLZ \/ CallPlz6

SpecPLZ == InitPLZ /\ [][NextPLZ]_vars

\* C15: requirePLZ returns nil exactly for 1000..9999, and the error names the
\* rejected code.
C15_RequirePLZ ==
    pc \in {"plz6", "done"} =>
        /\ err = <<>> <=> plz \in 1000..9999
        /\ err # <<>> => ContainsSeq(err, FmtInt(plz))

C15_Witness ==
    /\ pc = "done"
    /\ plz = 999
    /\ err # <<>>
    /\ ContainsSeq(err, <<"9", "9", "9">>)

\* C20: for a valid postal code plz6 is plz*100, a 6-digit number in
\* 100000..999900, different for different codes, and the plz query parameter
\* of the URL PLZDetail requests.
C20_Plz6 ==
    (pc = "done" /\ plz \in 1000..9999) =>
        /\ code6.n = plz * 100
        /\ code6.n \in 100000..999900
        /\ Len(FmtInt(code6.n)) = 6
        /\ code6.n \div 100 = plz
        /\ other # plz => plz6(other) # code6.n
        /\ QueryPLZ(code6.url) = FmtInt(plz * 100)

C20_Witness ==
    /\ pc = "done"
    /\ plz = 3012
    /\ code6.n = 301200
    /\ QueryPLZ(code6.url) = <<"3", "0", "1", "2", "0", "0">>

(***************************************************************************)
(* The HTTP client (Client.get, Client.PLZDetail) and the commands.        *)
(***************************************************************************)
StatusOK == 200

\* What the backend may answer.  A body is "value" (one JSON value that
\* decodes into PLZDetail), "trailing" (such a value followed by text that is
\* not JSON), "mismatch" (valid JSON of another shape), "malformed" or
\* "empty".  detail is what the leading JSON value decodes to.
Statuses == {StatusOK, 204, 404, 500}
Bodies == {"value", "trailing", "mismatch", "malformed", "empty"}

\* api.Warning, reduced to its level and headline.
Warning == [WarnLevel : {0, 3, 5}, Headline : {"a", "b"}]

Details ==
    [Graph : {<<>>} \cup {<<gr>> : gr \in GraphData({10}, {0}, {<<0>>, <<MaxMM>>}, {<<>>})},
     Forecast : SeqsUpTo(DayForecast, MaxForecast),
     Warnings : {<<>>}]
    \cup [Graph : {<<>>}, Forecast : {<<>>}, Warnings : SeqsUpTo(Warning, MaxWarnings)]

Responses ==
    {[transport |-> "fail", status |-> 0, body |-> "", detail |-> noDetail]}
    \cup [transport : {"ok"}, status : Statuses \ {StatusOK}, body : {"value", "malformed"}, detail : {noDetail}]
    \cup [transport : {"ok"}, status : {StatusOK}, body : {"mismatch", "malformed", "empty"}, detail : {noDetail}]
    \cup [transport : {"ok"}, status : {StatusOK}, body : {"value", "trailing"}, detail : Details]

\* json.Decoder.Decode reads the first JSON value of the stream into dst and
\* does not look at what follows it.
decodes(body) == body \in {"value", "trailing"}

\* Client.get taking every status below 400 for a success.
getAcceptsBelow400(url, r) ==
    IF r.transport # "ok"
    THEN [err |-> <<"Get ">> \o url \o <<": connection failed">>, dst |-> noDetail]
    ELSE IF r.status >= 400
    THEN [err |-> <<"unexpected HTTP ">> \o FmtInt(r.status) \o <<" from ">> \o url, dst |-> noDetail]
    ELSE IF ~decodes(r.body)
    THEN [err |-> <<"decoding response: ", "invalid JSON">>, dst |-> noDetail]
    ELSE [err |-> <<>>, dst |-> r.detail]

\* Client.get(url, dst) once http.Client.Do has answered r.
get(url, r) ==
    IF r.transport # "ok"
    THEN [err |-> <<"Get ">> \o url \o <<": connection failed">>, dst |-> noDetail]
    ELSE IF r.status # StatusOK
    THEN [err |-> <<"unexpected HTTP ">> \o FmtInt(r.status) \o <<" from ">> \o url, dst |-> noDetail]
    ELSE IF ~decodes(r.body)
    THEN [err |-> <<"decoding response: ", "invalid JSON">>, dst |-> noDetail]
    ELSE [err |-> <<>>, dst |-> r.detail]

\* What Client.PLZDetail(p) returns once the request is answered r: result is
\* <<>> for nil, <<d>> for a pointer to d.
ClientPLZDetail(p, r) ==
    LET e == get(plzDetailURL(baseURL, p), r)
    IN  IF e.err # <<>>
        THEN [result |-> <<>>, err |-> <<"fetching PLZ detail for ">> \o FmtInt(p) \o <<": ">> \o e.err]
        ELSE [result |-> <<e.dst>>, err |-> <<>>]

\* cobra refuses to run a command whose required flag is not set.
requiredFlagError == <<"required flag(s) ", "zip", " not set">>

InitCmd ==
    /\ cmd \in {"rain", "forecast", "warnings"}
    /\ zipSet \in BOOLEAN
    /\ plz \in (IF zipSet THEN {0, 500, 999, MinPLZ, 8000, MaxPLZ, 10000} ELSE {0})
    /\ within \in (IF cmd = "rain" THEN {0 - 1, 0, 1, 30, 1440, 1441} ELSE {30})
    /\ days \in (IF cmd = "forecast" THEN {0 - 1, 0, 1, 2, 10, 11} ELSE {7})
    /\ warnLevel \in (IF cmd = "warnings" THEN {0 - 1, 0, 1, 3, 5, 6} ELSE {1})
    /\ asJSON \in BOOLEAN
    /\ requests = <<>>
    /\ resp = noResp
    /\ fetched = noFetch
    /\ err = <<>>
    /\ output = <<>>
    /\ checks = 0
    /\ other = 0
    /\ code6 = [n |-> 0, url |-> <<>>]
    /\ NoText
    /\ g = [Start |-> 0, StartLowResolution |-> 0, Precipitation10m |-> <<>>, Precipitation1h |-> <<>>]
    /\ now = 0
    /\ window = 0
    /\ ret = zeroRet
    /\ prevRet = zeroRet
    /\ calls = 0
    /\ detail = noDetail
    /\ result = noResult
    /\ pc = "start"

inputVars == <<g, window, ret, prevRet, calls, plz, within, detail, cmd, zipSet, days, warnLevel, asJSON, other, code6, txtVars>>

\* return e
Reject(e) ==
    /\ err' = e
    /\ pc' = "done"
    /\ UNCHANGED <<inputVars, now, result, requests, resp, fetched, output, checks>>

\* client.PLZDetail(plz) up to c.http.Do(req)
SendRequest ==
    /\ requests' = Append(requests, plzDetailURL(baseURL, plz))
    /\ pc' = "wait"
    /\ UNCHANGED <<inputVars, now, result, resp, fetched, err, output, checks>>

\* out.PrintJSON(os.Stdout, v) or the text printer
Printed(v) == <<[format |-> IF asJSON THEN "json" ELSE "text", value |-> v]>>

\* The rain command letting --within 0 through.
RainRunWithinFromZero ==
    /\ pc = "start"
    /\ cmd = "rain"
    /\ IF ~zipSet THEN Reject(requiredFlagError)
       ELSE IF requirePLZ(plz) # <<>> THEN Reject(requirePLZ(plz))
       ELSE IF within < 0 \/ within > 1440
            THEN Reject(<<"--within", " must be between 1 and 1440 minutes">>)
       ELSE SendRequest

\* rain: the flag checks and the start of the fetch.
RainRun ==
    /\ pc = "start"
    /\ cmd = "rain"
    /\ IF ~zipSet THEN Reject(requiredFlagError)
       ELSE IF requirePLZ(plz) # <<>> THEN Reject(requirePLZ(plz))
       ELSE IF within < 1 \/ within > 1440
            THEN Reject(<<"--within", " must be between 1 and 1440 minutes">>)
       ELSE SendRequest

\* The forecast command letting --days 11 through.
ForecastRunDaysToEleven ==
    /\ pc = "start"
    /\ cmd = "forecast"
    /\ IF ~zipSet THEN Reject(requiredFlagError)
       ELSE IF requirePLZ(plz) # <<>> THEN Reject(requirePLZ(plz))
       ELSE IF days < 1 \/ days > 11
            THEN Reject(<<"--days", " must be between 1 and 10">>)
       ELSE SendRequest

\* forecast: the flag checks and the start of the fetch.
ForecastRun ==
    /\ pc = "start"
    /\ cmd = "forecast"
    /\ IF ~zipSet THEN Reject(requiredFlagError)
       ELSE IF requirePLZ(plz) # <<>> THEN Reject(requirePLZ(plz))
       ELSE IF days < 1 \/ days > 10
            THEN Reject(<<"--days", " must be between 1 and 10">>)
       ELSE SendRequest

\* warnings: the flag checks and the start of the fetch.
WarningsRun ==
    /\ pc = "start"
    /\ cmd = "warnings"
    /\ IF ~zipSet THEN Reject(requiredFlagError)
       ELSE IF warnLevel < 1 \/ warnLevel > 5
            THEN Reject(<<"--min-level", " must be between 1 and 5">>)
       ELSE IF requirePLZ(plz) # <<>> THEN Reject(requirePLZ(plz))
       ELSE SendRequest

\* A client that sends the request again when it failed.
HTTPRespondRetrying ==
    /\ pc = "wait"
    /\ \E r \in Responses :
          /\ resp' = r
          /\ fetched' = ClientPLZDetail(plz, r)
          /\ IF fetched'.err # <<>> /\ Len(requests) < 2
             THEN requests' = Append(requests, plzDetailURL(baseURL, plz)) /\ pc' = "wait"
             ELSE requests' = requests /\ pc' = "fetched"
    /\ UNCHANGED <<inputVars, now, result, err, output, checks>>

\* c.http.Do answers and Client.PLZDetail returns.
HTTPRespond ==
    /\ pc = "wait"
    /\ \E r \in Responses :
          /\ resp' = r
          /\ fetched' = ClientPLZDetail(plz, r)
    /\ pc' = "fetched"
    /\ UNCHANGED <<inputVars, now, result, requests, err, output, checks>>

\* The rain command going on to checkRain after a failed fetch.
RainFinishIgnoringError ==
    /\ pc = "fetched"
    /\ cmd = "rain"
    /\ now' \in {5, 20, 95}
    /\ result' = checkRain(plz, within, IF fetched.err # <<>> THEN noDetail ELSE fetched.result[1], now')
    /\ checks' = checks + 1
    /\ output' = Printed(result')
    /\ err' = fetched.err
    /\ pc' = "done"
    /\ UNCHANGED <<inputVars, requests, resp, fetched>>

\* rain: after the fetch.  now is time.Now().
RainFinish ==
    /\ pc = "fetched"
    /\ cmd = "rain"
    /\ IF fetched.err # <<>>
       THEN /\ err' = fetched.err
            /\ UNCHANGED <<now, result, output, checks>>
       ELSE /\ now' \in {5, 20, 95}
            /\ result' = checkRain(plz, within, fetched.result[1], now')
            /\ checks' = checks + 1
            /\ output' = Printed(result')
            /\ UNCHANGED err
    /\ pc' = "done"
    /\ UNCHANGED <<inputVars, requests, resp, fetched>>

\* The forecast command keeping the last days entries.
ForecastFinishLastDays ==
    /\ pc = "fetched"
    /\ cmd = "forecast"
    /\ IF fetched.err # <<>>
       THEN /\ err' = fetched.err
            /\ UNCHANGED output
       ELSE /\ LET forecast == fetched.result[1].Forecast
               IN  output' = Printed(IF Len(forecast) > days
                                     THEN SubSeq(forecast, Len(forecast) - days + 1, Len(forecast))
                                     ELSE forecast)
            /\ UNCHANGED err
    /\ pc' = "done"
    /\ UNCHANGED <<inputVars, now, result, requests, resp, fetched, checks>>

\* forecast: after the fetch.
ForecastFinish ==
    /\ pc = "fetched"
    /\ cmd = "forecast"
    /\ IF fetched.err # <<>>
       THEN /\ err' = fetched.err
            /\ UNCHANGED output
       ELSE /\ LET forecast == fetched.result[1].Forecast
               IN  output' = Printed(IF Len(forecast) > days THEN SubSeq(forecast, 1, days) ELSE forecast)
            /\ UNCHANGED err
    /\ pc' = "done"
    /\ UNCHANGED <<inputVars, now, result, requests, resp, fetched, checks>>

\* The warnings command keeping only levels strictly above --min-level.
WarningsFinishStrictlyAbove ==
    /\ pc = "fetched"
    /\ cmd = "warnings"
    /\ IF fetched.err # <<>>
       THEN /\ err' = fetched.err
            /\ UNCHANGED output
       ELSE /\ LET keep(w) == w.WarnLevel > warnLevel
               IN  output' = Printed(SelectSeq(fetched.result[1].Warnings, keep))
            /\ UNCHANGED err
    /\ pc' = "done"
    /\ UNCHANGED <<inputVars, now, result, requests, resp, fetched, checks>>

\* warnings: after the fetch.
WarningsFinish ==
    /\ pc = "fetched"
    /\ cmd = "warnings"
    /\ IF fetched.err # <<>>
       THEN /\ err' = fetched.err
            /\ UNCHANGED output
       ELSE /\ LET keep(w) == w.WarnLevel >= warnLevel
               IN  output' = Printed(SelectSeq(fetched.result[1].Warnings, keep))
            /\ UNCHANGED err
    /\ pc' = "done"
    /\ UNCHANGED <<inputVars, now, result, requests, resp, fetched, checks>>

NextCmd ==
    \/ RainRun
    \/ ForecastRun
    \/ WarningsRun
    \/ HTTPRespond
    \/ RainFinish
    \/ ForecastFinish
    \/ WarningsFinish

SpecCmd == InitCmd /\ [][NextCmd]_vars

\* C14: the rain command rejects a missing or out-of-range postal code and a
\* --within outside 1..1440 with an error, sending no request and not running
\* checkRain; every --within in 1..1440 with a valid postal code passes the
\* validation (the request is sent).
C14_RainValidation ==
    (cmd = "rain" /\ pc # "start") =>
        IF ~zipSet \/ plz \notin MinPLZ..MaxPLZ \/ within \notin 1..1440
        THEN /\ pc = "done"
             /\ err # <<>>
             /\ requests = <<>>
             /\ checks = 0
             /\ result = noResult
             /\ output = <<>>
        ELSE /\ Len(requests) = 1
             /\ ~Contains(err, "--within")
             /\ ~Contains(err, "invalid Swiss postal code ")

C14_Witness ==
    /\ cmd = "rain"
    /\ zipSet
    /\ plz = 8000
    /\ within = 1441
    /\ pc = "done"
    /\ Contains(err, "--within")
    /\ requests = <<>>

\* C16: the forecast command with a valid postal code rejects every --days
\* outside 1..10 with an error mentioning "--days", before any request is sent.
C16_ForecastDays ==
    (cmd = "forecast" /\ zipSet /\ plz \in MinPLZ..MaxPLZ /\ days \notin 1..10 /\ pc # "start") =>
        /\ pc = "done"
        /\ Contains(err, "--days")
        /\ requests = <<>>
        /\ output = <<>>

C16_Witness ==
    /\ cmd = "forecast"
    /\ zipSet
    /\ plz = 8000
    /\ days = 11
    /\ pc = "done"
    /\ Contains(err, "--days")

\* C17: the warnings command with a --min-level outside 1..5 and no --zip
\* returns an error mentioning "--min-level" and sends no request.
C17_MinLevelNamed ==
    (cmd = "warnings" /\ ~zipSet /\ warnLevel \notin 1..5 /\ pc # "start") =>
        /\ pc = "done"
        /\ Contains(err, "--min-level")
        /\ requests = <<>>

\* A body that is valid JSON as a whole.
ValidJSON(body) == body \in {"value", "mismatch"}

\* C18 as stated: Client.PLZDetail returns nil and an error whenever the
\* transport fails, the status is not 200 or the body is not valid JSON; a
\* non-200 error names the status; a non-nil result only for a 200 that decodes.
C18_ErrorOnInvalidJSON ==
    resp # noResp =>
        /\ (resp.transport # "ok" \/ resp.status # StatusOK \/ ~ValidJSON(resp.body))
              => (fetched.result = <<>> /\ fetched.err # <<>>)
        /\ (resp.transport = "ok" /\ resp.status # StatusOK)
              => ContainsSeq(fetched.err, FmtInt(resp.status))
        /\ fetched.result # <<>> => (resp.status = StatusOK /\ decodes(resp.body))

\* C18 amended: Client.PLZDetail returns nil and an error whenever the
\* transport fails, the status is not 200 or the body does not begin with a
\* JSON value that decodes into PLZDetail; a non-200 error names the status; a
\* non-nil result (the decoded leading value) only for a 200 that decodes.
C18_ErrorUnlessLeadingValueDecodes ==
    resp # noResp =>
        /\ (resp.transport # "ok" \/ resp.status # StatusOK \/ ~decodes(resp.body))
              => (fetched.result = <<>> /\ fetched.err # <<>>)
        /\ (resp.transport = "ok" /\ resp.status # StatusOK)
              => ContainsSeq(fetched.err, FmtInt(resp.status))
        /\ fetched.result # <<>>
              => /\ resp.transport = "ok"
                 /\ resp.status = StatusOK
                 /\ decodes(resp.body)
                 /\ fetched.result = <<resp.detail>>
                 /\ fetched.err = <<>>

C18_Witness ==
    /\ resp.transport = "ok"
    /\ resp.status = 500
    /\ fetched.result = <<>>
    /\ ContainsSeq(fetched.err, <<"5", "0", "0">>)

\* C19: a call of Client.PLZDetail issues exactly one HTTP request whatever
\* the outcome (no retry after a failure), and a command invocation calls
\* PLZDetail at most once.
C19_SingleRequest ==
    /\ Len(requests) <= 1
    /\ pc \in {"wait", "fetched"} => Len(requests) = 1
    /\ resp # noResp => (Len(requests) = 1 /\ pc \in {"fetched", "done"})

C19_Witness ==
    /\ resp.transport = "fail"
    /\ fetched.err # <<>>
    /\ pc = "done"
    /\ Len(requests) = 1

\* C21: in the rain command a failed fetch is returned as the command's error,
\* checkRain is never run and nothing is printed or serialized; a result is
\* printed only after a successful fetch followed by checkRain.
C21_FetchFailureAborts ==
    cmd = "rain" =>
        /\ fetched.err # <<>> => (checks = 0 /\ result = noResult /\ output = <<>>)
        /\ (fetched.err # <<>> /\ pc = "done") => err = fetched.err
        /\ output # <<>> =>
              /\ fetched.err = <<>>
              /\ fetched.result # <<>>
              /\ checks = 1
              /\ err = <<>>
              /\ output = Printed(checkRain(plz, within, fetched.result[1], now))

C21_Witness ==
    /\ cmd = "rain"
    /\ pc = "done"
    /\ resp.transport = "ok"
    /\ resp.status = 404
    /\ fetched.err # <<>>
    /\ err = fetched.err
    /\ output = <<>>

\* The positions of ws whose warning reaches level lvl.
KeptAt(ws, lvl) == {i \in 1..Len(ws) : ws[i].WarnLevel >= lvl}

\* The j-th smallest member of the set of positions K.
NthOf(K, j) == CHOOSE i \in K : Cardinality({k \in K : k <= i}) = j

\* C22: the warnings command outputs exactly the fetched warnings whose
\* WarnLevel is >= --min-level, in their fetched order, none dropped,
\* duplicated or altered; with --min-level 1 every warning of level >= 1 is kept.
C22_WarningsFiltered ==
    (cmd = "warnings" /\ pc = "done" /\ fetched.result # <<>>) =>
        LET ws == fetched.result[1].Warnings
            K == KeptAt(ws, warnLevel)
        IN  /\ Len(output) = 1
            /\ Len(output[1].value) = Cardinality(K)
            /\ \A j \in 1..Cardinality(K) : output[1].value[j] = ws[NthOf(K, j)]
            /\ warnLevel = 1 =>
                  \A i \in 1..Len(ws) : ws[i].WarnLevel >= 1 =>
                      \E j \in 1..Len(output[1].value) : output[1].value[j] = ws[i]

C22_Witness ==
    /\ cmd = "warnings"
    /\ pc = "done"
    /\ warnLevel = 3
    /\ fetched.result # <<>>
    /\ Len(fetched.result[1].Warnings) = 2
    /\ fetched.result[1].Warnings[1].WarnLevel = 0
    /\ fetched.result[1].Warnings[2].WarnLevel = 3
    /\ Len(output) = 1
    /\ Len(output[1].value) = 1

\* C23: the forecast command outputs the first min(days, n) of the n fetched
\* daily entries, in their fetched order; when n <= days all entries are output
\* unchanged.
C23_ForecastTruncated ==
    (cmd = "forecast" /\ pc = "done" /\ fetched.result # <<>>) =>
        LET f == fetched.result[1].Forecast
            n == Len(f)
            k == IF days < n THEN days ELSE n
        IN  /\ Len(output) = 1
            /\ Len(output[1].value) = k
            /\ \A j \in 1..k : output[1].value[j] = f[j]
            /\ n <= days => output[1].value = f

C23_Witness ==
    /\ cmd = "forecast"
    /\ pc = "done"
    /\ days = 1
    /\ fetched.result # <<>>
    /\ Len(fetched.result[1].Forecast) = 2
    /\ fetched.result[1].Forecast[1] # fetched.result[1].Forecast[2]
    /\ Len(output) = 1
    /\ output[1].value = <<fetched.result[1].Forecast[1]>>

\* C24: when a graph is present but its high-resolution series is empty,
\* checkRain does not run the windowed query, even if a low-resolution slot
\* overlaps the window: the result is that of the first daily forecast entry,
\* or the data-unavailable result when there is no forecast.
C24_EmptyHighResSkipsQuery ==
    (pc = "done" /\ Len(detail.Graph) > 0 /\ Len(detail.Graph[1].Precipitation10m) = 0) =>
        /\ ~GraphMessage(result.Message)
        /\ result = checkRain(plz, within, [detail EXCEPT !.Graph = <<>>], now)
        /\ Len(detail.Forecast) > 0 =>
              /\ result.MaxRainMM = detail.Forecast[1].Precipitation
              /\ result.RainExpected = (detail.Forecast[1].Precipitation > 0)
              /\ FallbackMessage(result.Message)
        /\ Len(detail.Forecast) = 0 =>
              /\ result.MaxRainMM = 0
              /\ ~result.RainExpected
              /\ UnavailableMessage(result.Message)

C24_Witness ==
    /\ pc = "done"
    /\ Len(detail.Graph) > 0
    /\ detail.Graph[1].Precipitation10m = <<>>
    /\ Query.ok
    /\ Query.maxMM > 0
    /\ Len(detail.Forecast) > 0
    /\ detail.Forecast[1].Precipitation = 0
    /\ ~result.RainExpected
    /\ FallbackMessage(result.Message)

\* C27: every result of checkRain has RainExpected = TRUE exactly when
\* MaxRainMM > 0, in all three branches, also for a zero or negative first-day
\* total.
C27_ExpectedIffPositive ==
    pc = "done" => (result.RainExpected <=> result.MaxRainMM > 0)

C27_Witness ==
    /\ pc = "done"
    /\ ~(GraphUsable /\ Query.ok)
    /\ Len(detail.Forecast) > 0
    /\ detail.Forecast[1].Precipitation < 0
    /\ result.MaxRainMM < 0
    /\ ~result.RainExpected

\* C28: graphRainInWindow is monotone in the window length: for a fixed graph
\* and now and 0 <= d1 <= d2, found at d1 implies found at d2 and maxMM at d1
\* is <= maxMM at d2.  (d2 is the window of the call, d1 any shorter one.)
C28_MonotoneInWindow ==
    calls >= 1 =>
        \A d1 \in {d \in Grid(MaxWindowK) : d <= window} :
            LET q == graphRainInWindow(g, now, d1)
            IN  /\ q.ok => ret.ok
                /\ q.maxMM <= ret.maxMM

C28_Witness ==
    /\ calls >= 1
    /\ window = 10
    /\ ret.ok
    /\ ret.maxMM > 0
    /\ ~graphRainInWindow(g, now, 0).ok
    /\ graphRainInWindow(g, now, 5).ok
    /\ graphRainInWindow(g, now, 5).maxMM = 0

(***************************************************************************)
(* truncate.  A Go string is a sequence of bytes; a rune is held as the    *)
(* bytes of its UTF-8 encoding.  The bytes modelled: the ASCII letter "a", *)
(* the two-byte lead C3, the three-byte leads E2 and EF and the            *)
(* continuation bytes 80, A6, A9, BD, BF.                                  *)
(***************************************************************************)
Lead2 == {"C3"}
Lead3 == {"E2", "EF"}
Cont == {"80", "A6", "A9", "BD", "BF"}

\* utf8.RuneError (U+FFFD) and the ellipsis (U+2026)
RuneError == <<"EF", "BF", "BD">>
Ellipsis == <<"E2", "80", "A6">>

\* The bytes a label is made of.
LabelBytes == {"a", "C3", "A9", "E2", "80", "A6"}

\* []rune(s) from byte i on: a well-formed encoding is one rune, any other
\* byte is RuneError and one byte is consumed.
RECURSIVE RunesFrom(_, _)
RunesFrom(s, i) ==
    IF i > Len(s) THEN <<>>
    ELSE IF s[i] = "a" THEN <<(<<"a">>)>> \o RunesFrom(s, i + 1)
    ELSE IF s[i] \in Lead2 /\ i + 1 <= Len(s) /\ s[i + 1] \in Cont
         THEN <<SubSeq(s, i, i + 1)>> \o RunesFrom(s, i + 2)
    ELSE IF s[i] \in Lead3 /\ i + 2 <= Len(s) /\ s[i + 1] \in Cont /\ s[i + 2] \in Cont
         THEN <<SubSeq(s, i, i + 2)>> \o RunesFrom(s, i + 3)
    ELSE <<RuneError>> \o RunesFrom(s, i + 1)

\* []rune(s)
Runes(s) == RunesFrom(s, 1)

\* string(runes)
RECURSIVE String(_)
String(runes) == IF runes = <<>> THEN <<>> ELSE Head(runes) \o String(Tail(runes))

\* truncate(s, n).  runes[:n-1] panics when n-1 is negative.
truncate(s, n) ==
    LET runes == Runes(s)
    IN  IF Len(runes) <= n THEN [panic |-> FALSE, value |-> s]
        ELSE IF n - 1 < 0 THEN [panic |-> TRUE, value |-> <<>>]
        ELSE [panic |-> FALSE, value |-> String(SubSeq(runes, 1, n - 1)) \o Ellipsis]

InitTruncate ==
    /\ label \in SeqsUpTo(LabelBytes, MaxLabel)
    /\ width \in 0..MaxWidth
    /\ cut = noCut
    /\ pc = "truncate"
    /\ cmd = ""
    /\ zipSet = FALSE
    /\ days = 0
    /\ warnLevel = 0
    /\ asJSON = FALSE
    /\ requests = <<>>
    /\ resp = noResp
    /\ fetched = noFetch
    /\ err = <<>>
    /\ output = <<>>
    /\ checks = 0
    /\ other = 0
    /\ code6 = [n |-> 0, url |-> <<>>]
    /\ g = [Start |-> 0, StartLowResolution |-> 0, Precipitation10m |-> <<>>, Precipitation1h |-> <<>>]
    /\ now = 0
    /\ window = 0
    /\ ret = zeroRet
    /\ prevRet = zeroRet
    /\ calls = 0
    /\ plz = 0
    /\ within = 0
    /\ detail = noDetail
    /\ result = noResult

\* cut := truncate(label, width)
CallTruncate ==
    /\ pc = "truncate"
    /\ cut' = truncate(label, width)
    /\ pc' = "done"
    /\ UNCHANGED <<g, now, window, ret, prevRet, calls, plz, within, detail, result>>
    /\ UNCHANGED <<cmd, zipSet, days, warnLevel, asJSON, requests, resp, fetched, err, output, checks, other, code6>>
    /\ UNCHANGED <<label, width>>

NextTruncate == CallTruncate

SpecTruncate == InitTruncate /\ [][NextTruncate]_vars

\* C25: for every string s and every n >= 0, truncate(s, n) returns a string
\* of at most n runes: s itself when s has at most n runes, otherwise the first
\* n-1 runes of s followed by the ellipsis, exactly n runes.
C25_Truncate ==
    pc = "done" =>
        /\ ~cut.panic
        /\ Len(Runes(cut.value)) <= width
        /\ IF Len(Runes(label)) <= width
           THEN cut.value = label
           ELSE /\ Runes(cut.value) = SubSeq(Runes(label), 1, width - 1) \o <<Ellipsis>>
                /\ Len(Runes(cut.value)) = width

(***************************************************************************)
(* graphRainInWindow of src/cmd/meteocli/rain.go: one Precipitation array, *)
(* Start and StartLowResolution given as time strings, the window walked   *)
(* from now in steps.  A time string is held as [text, at]: text says      *)
(* whether it is empty, well-formed or not, at is the minute it names.     *)
(***************************************************************************)
TimeString(ts) == [text : {"time"}, at : ts] \cup {[text |-> "", at |-> 0], [text |-> "bad", at |-> 0]}

\* parseGraphTime(s): <<>> is the zero time.Time
parseGraphTime(s) ==
    IF s.text = "time" THEN [t |-> <<s.at>>, err |-> FALSE] ELSE [t |-> <<>>, err |-> TRUE]

\* Go's integer division, truncating toward zero
Quo(a, b) == IF a >= 0 THEN a \div b ELSE 0 - ((0 - a) \div b)

\* hiCount: the number of high-resolution slots before low-resolution data
hiCountOf(gr) ==
    LET hiStart == parseGraphTime(gr.Start).t[1]
        loStart == IF gr.StartLowResolution.text # "" THEN parseGraphTime(gr.StartLowResolution).t ELSE <<>>
        n == Quo(loStart[1] - hiStart, hiInterval)
    IN  IF loStart # <<>> /\ n < Len(gr.Precipitation) THEN n ELSE Len(gr.Precipitation)

\* "for t := now; !t.After(end); { ... }", from t on
RECURSIVE walkWindow(_, _, _, _, _, _, _)
walkWindow(gr, hiStart, loStart, hiCount, t, end, acc) ==
    IF t > end THEN acc
    ELSE IF (loStart = <<>> \/ t < loStart[1]) /\ t < hiStart
         THEN walkWindow(gr, hiStart, loStart, hiCount, t + hiInterval, end, acc)   \* continue
    ELSE LET inHi == loStart = <<>> \/ t < loStart[1]
             idx == IF inHi THEN Quo(t - hiStart, hiInterval)
                    ELSE hiCount + Quo(t - loStart[1], loInterval)
             step == IF inHi THEN hiInterval ELSE loInterval
         IN  IF idx >= Len(gr.Precipitation) THEN acc                               \* break
             ELSE walkWindow(gr, hiStart, loStart, hiCount, t + step, end,
                      IF idx >= 0
                      THEN [maxMM |-> IF gr.Precipitation[idx + 1] > acc.maxMM
                                      THEN gr.Precipitation[idx + 1] ELSE acc.maxMM,
                            ok |-> TRUE,
                            counted |-> acc.counted \cup {<<"slot", idx + 1>>}]
                      ELSE acc)

graphRainInWindowStepping(gr, t, w) ==
    IF parseGraphTime(gr.Start).err THEN zeroRet
    ELSE LET hiStart == parseGraphTime(gr.Start).t[1]
             loStart == IF gr.StartLowResolution.text # ""
                        THEN parseGraphTime(gr.StartLowResolution).t ELSE <<>>
         IN  walkWindow(gr, hiStart, loStart, hiCountOf(gr), t, t + w, zeroRet)

\* The graphs of this layout: Start names minute 10 or does not parse;
\* StartLowResolution is empty or names the end of k high-resolution slots,
\* k no more than the length of the array.
SteppingGraphs ==
    {gr \in [Start : TimeString({10}),
             StartLowResolution : TimeString({10 + hiInterval * k : k \in 0..MaxSlots}) \ {[text |-> "bad", at |-> 0]},
             Precipitation : SeqsUpTo(0..MaxMM, MaxSlots)] :
        /\ gr.Start.text # ""
        /\ gr.StartLowResolution.text = "time" =>
              gr.StartLowResolution.at <= 10 + hiInterval * Len(gr.Precipitation)}

InitStepping ==
    /\ g \in SteppingGraphs
    /\ now \in Grid(MaxNowK)
    /\ window \in Grid(MaxWindowK) \cup {7, 55}
    /\ ret = zeroRet
    /\ prevRet = zeroRet
    /\ calls = 0
    /\ plz = 0
    /\ within = 0
    /\ detail = noDetail
    /\ result = noResult
    /\ pc = "stepping"
    /\ NoCommand

\* maxMM, ok := graphRainInWindow(g, now, window)
CallStepping ==
    /\ pc = "stepping"
    /\ ret' = graphRainInWindowStepping(g, now, window)
    /\ calls' = calls + 1
    /\ pc' = "done"
    /\ UNCHANGED <<g, now, window, prevRet, plz, within, detail, result, cmdVars>>

NextStepping == CallStepping

SpecStepping == InitStepping /\ [][NextStepping]_vars

\* The layout the function documents: slots 1..hiCount are 10 minutes wide from
\* Start, the slots after them 60 minutes wide from StartLowResolution.
SteppingSlotStart(gr, i) ==
    IF i <= hiCountOf(gr) THEN gr.Start.at + (i - 1) * hiInterval
    ELSE gr.StartLowResolution.at + (i - hiCountOf(gr) - 1) * loInterval
SteppingSlotEnd(gr, i) ==
    SteppingSlotStart(gr, i) + (IF i <= hiCountOf(gr) THEN hiInterval ELSE loInterval)

\* The slots of gr that share more than one instant with [t, t + w], and
\* those that share at least one.
SteppingInside(gr, t, w) ==
    {i \in 1..Len(gr.Precipitation) : SteppingSlotStart(gr, i) < t + w /\ SteppingSlotEnd(gr, i) > t}
SteppingOverlap(gr, t, w) ==
    {i \in 1..Len(gr.Precipitation) : SteppingSlotStart(gr, i) <= t + w /\ SteppingSlotEnd(gr, i) > t}

\* C26: the time-stepping graphRainInWindow returns the maximum precipitation
\* value across all graph slots that overlap [now, now+window]: no less than
\* the largest value of a slot reaching into the window, no more than the
\* largest value of a slot touching it.
C26_SteppingMax ==
    (pc = "done" /\ g.Start.text = "time") =>
        /\ ret.maxMM >= SetMax({g.Precipitation[i] : i \in SteppingInside(g, now, window)})
        /\ ret.maxMM <= SetMax({g.Precipitation[i] : i \in SteppingOverlap(g, now, window)})

====
